---- MODULE Spec2Model ----
(***************************************************************************)
(* Model of workers-site/index.js: the fetch listener, handleEvent, the    *)
(* two asset-mapping overrides and addCustomHeaders, together with the     *)
(* key-value asset store they call into.                                   *)
(*                                                                         *)
(* Strings are sequences of tokens.  A token is a run of characters that   *)
(* contains no "/" and no "?" (or is exactly "/" or "?"), so a URL such as *)
(* https://example.com/js/app.js is                                        *)
(*   <<"https:", "/", "/", "example.com", "/", "js", "/", "app.js">>       *)
(* and substring tests on "/"-delimited text are tests on tokens.          *)
(***************************************************************************)
EXTENDS Integers, Sequences, FiniteSets, TLC

VARIABLES
    DEBUG,      \* the DEBUG flag of the deployment (index.js:10)
    kv,         \* the asset store's state; the worker never writes it
    pc,         \* where the invocation is: idle, primary, fallback, done
    request,    \* event.request.url of the event being handled
    lookups,    \* the getAssetFromKV calls issued by this invocation, in order
    caught,     \* the e bound by the catch at index.js:83
    responded,  \* how many times event.respondWith was called for this event
    result,     \* what the promise handed to respondWith settled to
    handled,    \* number of events completed so far
    log         \* every completed (request, result) pair

vars == <<DEBUG, kv, pc, request, lookups, caught, responded, result, handled, log>>

\* Number of fetch events dispatched in one behaviour.
MaxEvents == 2

----------------------------------------------------------------------------
(* URLs *)

Scheme == <<"https:", "/", "/">>

Href(host, rest) == Scheme \o <<host>> \o rest

\* The request URLs the runtime dispatches.  The last one is not parseable.
Requests ==
    { Href("example.com", <<"/">>),
      Href("example.com", <<"/", "index.html">>),
      Href("example.com", <<"/", "about">>),
      Href("example.com", <<"/", "some", "/", "dir", "/", "index.html">>),
      Href("example.com", <<"/", "js", "/", "app.js">>),
      Href("example.com", <<"/", "css", "/">>),
      Href("example.com", <<"/", "img", "/", "logo.png">>),
      Href("example.com", <<"/", "missing.png">>),
      Href("example.com", <<"/", "index.html", "?", "a=", "/", "js", "/", "x">>),
      Href("example.com", <<"/", "some", "/", "dir", "/", "?", "a=1">>),
      Href("example.com", <<"/", "app.js", "?", "x=", "/", "index.html">>),
      Href("js", <<"/", "app.js">>),
      <<"not a url">> }

\* File names for which the store's mime table knows a type.
MimeNames == {"index.html", "404.html", "app.js", "logo.png", "missing.png"}

\* new URL(s) succeeds
IsURL(s) == /\ Len(s) >= 5
            /\ SubSeq(s, 1, 3) = Scheme
            /\ s[4] \notin {"/", "?"}
            /\ s[5] = "/"

\* index of the "?" that starts the query, or Len(s) + 1
RECURSIVE QueryAt(_, _)
QueryAt(s, i) == IF i > Len(s) THEN i
                 ELSE IF s[i] = "?" THEN i
                 ELSE QueryAt(s, i + 1)

\* new URL(s), for a parseable s
ParseURL(s) ==
    LET q == QueryAt(s, 5)
    IN  [origin   |-> SubSeq(s, 1, 4),
         pathname |-> SubSeq(s, 5, q - 1),
         search   |-> SubSeq(s, q, Len(s))]

\* url.toString() / String(url)
URLToString(u) == u.origin \o u.pathname \o u.search

\* String.prototype.endsWith
EndsWith(s, suffix) ==
    /\ Len(s) >= Len(suffix)
    /\ SubSeq(s, Len(s) - Len(suffix) + 1, Len(s)) = suffix

----------------------------------------------------------------------------
(* The asset store (kv-asset-handler) *)

\* the library's default mapRequestToAsset: it appends index.html to a path
\* ending in "/", /index.html to a path with no known file type, and leaves
\* origin and query as they are
mapRequestToAsset(req) ==
    LET u == ParseURL(req)
        p == u.pathname
        mapped == IF p[Len(p)] = "/" THEN p \o <<"index.html">>
                  ELSE IF p[Len(p)] \notin MimeNames THEN p \o <<"/", "index.html">>
                  ELSE p
    IN  URLToString([u EXCEPT !.pathname = mapped])

Key(path) == <<"/">> \o path

AlwaysPresent == { Key(<<"js", "/", "app.js">>),
                   Key(<<"img", "/", "logo.png">>),
                   Key(<<"app.js">>) }

OptionalAssets == { Key(<<"index.html">>), Key(<<"404.html">>) }

StoreStatuses == {200, 206}

StoreStates ==
    [present : {AlwaysPresent \cup o : o \in SUBSET OptionalAssets},
     status  : StoreStatuses,
     blank   : BOOLEAN]

StoreError(store, key) ==
    IF store.blank
    THEN [name |-> "Error", message |-> <<>>]
    ELSE [name |-> "NotFoundError",
          message |-> <<"could not find ">> \o key \o <<" in your content namespace">>]

StoreResponse(store, key) ==
    [status  |-> store.status,
     headers |-> <<<<"Content-Type", key[Len(key)]>>>>,
     body    |-> <<"contents of ">> \o key]

\* getAssetFromKV resolves for this mapped URL
Served(store, url) == ParseURL(url).pathname \in store.present

----------------------------------------------------------------------------
(* index.js *)

\* options.mapRequestToAsset
indexMapRequestToAsset(req) ==
    LET r == mapRequestToAsset(req)
    IN  IF EndsWith(r, <<"/", "index.html">>)
        THEN ParseURL(r).origin \o <<"/", "index.html">>
        ELSE r

\* fault variant: the 404 fetch keeps the original path
notFoundMapRequestToAsset_keepPath(req) == req

\* the mapRequestToAsset of the 404 fetch
notFoundMapRequestToAsset(req) == ParseURL(req).origin \o <<"/", "404.html">>

\* fault variant: one module-level regex with the g flag, whose lastIndex makes
\* every second test fail
regexTest_sticky(s) ==
    /\ handled % 2 = 0
    /\ \E i \in 2..(Len(s) - 3) :
          /\ s[i] = "/"
          /\ s[i + 1] \in {"js", "css", "img"}
          /\ s[i + 2] = "/"

\* /\S+\/(js|css|img)\/\S+/.test(s), s without whitespace
regexTest(s) ==
    \E i \in 2..(Len(s) - 3) :
        /\ s[i] = "/"
        /\ s[i + 1] \in {"js", "css", "img"}
        /\ s[i + 2] = "/"

Immutable == "public, max-age=31536000, immutable"
MustRevalidate == "must-revalidate"

SecurityHeaders ==
    << <<"X-Frame-Options", "DENY">>,
       <<"X-Content-Type-Options", "nosniff">>,
       <<"X-XSS-Protection", "1; mode=block">>,
       <<"Referrer-Policy", "no-referrer">> >>

addCustomHeaders(requestURL, response) ==
    LET cache == IF regexTest(URLToString(requestURL)) THEN Immutable ELSE MustRevalidate
    IN  [response EXCEPT
            !.headers = Append(@, <<"Cache-Control", cache>>) \o SecurityHeaders]

\* fault variant: the store's status is kept
notFoundResponse_keepStatus(nf) == [status |-> nf.status, headers |-> <<>>, body |-> nf.body]

\* new Response(notFoundResponse.body, { ...notFoundResponse, status: 404 })
\* A Response's fields are prototype accessors, so the spread copies nothing:
\* the page's headers are not carried over.
NotFoundResponse(nf) == [status |-> 404, headers |-> <<>>, body |-> nf.body]

\* e.toString()
ErrorToString(e) ==
    IF e.message = <<>> THEN <<e.name>> ELSE <<e.name, ": ">> \o e.message

\* e.message || e.toString()
ErrorText(e) == IF e.message # <<>> THEN e.message ELSE ErrorToString(e)

\* new Response(e.message || e.toString(), { status: 500 })
ErrorResponse(e) == [status |-> 500, headers |-> <<>>, body |-> ErrorText(e)]

\* fault variant: the inner catch's e is the one reported
outerError_shadowed(outer, inner) == inner

\* the e in scope at index.js:95
OuterError(outer, inner) == outer

\* fault variant: the 404 fetch is attempted whatever DEBUG is
fallbackAttempted_always(debug) == TRUE

\* if (!DEBUG)
FallbackAttempted(debug) == ~debug

----------------------------------------------------------------------------
(* State machine *)

NoError == [name |-> "", message |-> <<>>]
NoResult == [kind |-> "pending"]

Call(which, url, bypass) == [call |-> which, url |-> url, bypassCache |-> bypass]

Init ==
    /\ DEBUG \in BOOLEAN
    /\ kv \in StoreStates
    /\ pc = "idle"
    /\ request = <<>>
    /\ lookups = <<>>
    /\ caught = NoError
    /\ responded = 0
    /\ result = NoResult
    /\ handled = 0
    /\ log = {}

Settle(r) ==
    /\ result' = r
    /\ pc' = "done"
    /\ handled' = handled + 1
    /\ log' = log \cup {[request |-> request, result |-> r]}

\* The listener runs handleEvent up to its first await and hands the pending
\* promise to respondWith.
FetchEvent(req) ==
    /\ pc \in {"idle", "done"}
    /\ handled < MaxEvents
    /\ IsURL(req)
    /\ request' = req
    /\ lookups' = <<Call("primary", indexMapRequestToAsset(req), DEBUG)>>
    /\ caught' = NoError
    /\ responded' = 1
    /\ result' = NoResult
    /\ pc' = "primary"
    /\ UNCHANGED <<DEBUG, kv, handled, log>>

\* new URL(event.request.url) throws inside the async function: the promise
\* handed to respondWith is rejected, and the listener's catch is not entered.
FetchEventThrows(req) ==
    /\ pc \in {"idle", "done"}
    /\ handled < MaxEvents
    /\ ~IsURL(req)
    /\ request' = req
    /\ lookups' = <<>>
    /\ caught' = NoError
    /\ responded' = 1
    /\ result' = [kind |-> "rejected",
                  error |-> [name |-> "TypeError", message |-> <<"Invalid URL">>]]
    /\ pc' = "done"
    /\ handled' = handled + 1
    /\ log' = log \cup {[request |-> req, result |-> result']}
    /\ UNCHANGED <<DEBUG, kv>>

PrimaryResolves ==
    /\ pc = "primary"
    /\ Served(kv, lookups[1].url)
    /\ LET response == StoreResponse(kv, ParseURL(lookups[1].url).pathname)
           decorated == addCustomHeaders(ParseURL(request), response)
       IN  Settle([kind |-> "response"] @@ decorated)
    /\ UNCHANGED <<DEBUG, kv, request, lookups, caught, responded>>

PrimaryRejects ==
    /\ pc = "primary"
    /\ ~Served(kv, lookups[1].url)
    /\ LET e == StoreError(kv, ParseURL(lookups[1].url).pathname)
       IN  /\ caught' = e
           /\ IF FallbackAttempted(DEBUG)
              THEN /\ lookups' = Append(lookups,
                                    Call("notFound", notFoundMapRequestToAsset(request), FALSE))
                   /\ pc' = "fallback"
                   /\ UNCHANGED <<result, handled, log>>
              ELSE /\ Settle([kind |-> "response"] @@ ErrorResponse(e))
                   /\ UNCHANGED lookups
    /\ UNCHANGED <<DEBUG, kv, request, responded>>

FallbackResolves ==
    /\ pc = "fallback"
    /\ Served(kv, lookups[2].url)
    /\ LET nf == StoreResponse(kv, ParseURL(lookups[2].url).pathname)
       IN  Settle([kind |-> "response"] @@ NotFoundResponse(nf))
    /\ UNCHANGED <<DEBUG, kv, request, lookups, caught, responded>>

FallbackRejects ==
    /\ pc = "fallback"
    /\ ~Served(kv, lookups[2].url)
    /\ LET inner == StoreError(kv, ParseURL(lookups[2].url).pathname)
       IN  Settle([kind |-> "response"] @@ ErrorResponse(OuterError(caught, inner)))
    /\ UNCHANGED <<DEBUG, kv, request, lookups, caught, responded>>

Next ==
    \/ \E req \in Requests : FetchEvent(req)
    \/ \E req \in Requests : FetchEventThrows(req)
    \/ PrimaryResolves
    \/ PrimaryRejects
    \/ FallbackResolves
    \/ FallbackRejects

Spec == Init /\ [][Next]_vars

----------------------------------------------------------------------------
(* Properties *)

Done == pc = "done"
IsResponse == result.kind = "response"

PrimaryKey == ParseURL(lookups[1].url).pathname
PrimaryFailed == Len(lookups) >= 1 /\ pc # "primary" /\ ~Served(kv, lookups[1].url)
PrimarySucceeded == Len(lookups) >= 1 /\ pc # "primary" /\ Served(kv, lookups[1].url)
FallbackFailed == Len(lookups) = 2 /\ Done /\ ~Served(kv, lookups[2].url)
FallbackSucceeded == Len(lookups) = 2 /\ Done /\ Served(kv, lookups[2].url)

RootURL(name) == SubSeq(request, 1, 4) \o <<"/", name>>

\* headers.get(name): the values appended under the name, in order
RECURSIVE HeaderValues(_, _)
HeaderValues(h, name) ==
    IF h = <<>> THEN <<>>
    ELSE (IF h[1][1] = name THEN <<h[1][2]>> ELSE <<>>) \o HeaderValues(Tail(h), name)

\* the path has a segment equal to js, css or img with a non-empty part after it
PathIsHashedAsset(p) ==
    \E i \in 1..(Len(p) - 3) :
        /\ p[i] = "/"
        /\ p[i + 1] \in {"js", "css", "img"}
        /\ p[i + 2] = "/"

\* what e.message || e.toString() must give for the failure of a lookup
ExpectedErrorBody(key) ==
    LET e == StoreError(kv, key)
    IN  IF e.message # <<>> THEN e.message ELSE <<e.name>>

\* C1: every response the handler produces, whatever the outcome, carries the
\* four security headers with their literal values.
C1_SecurityHeadersOnEveryResponse ==
    IsResponse =>
        /\ HeaderValues(result.headers, "X-Frame-Options") = <<"DENY">>
        /\ HeaderValues(result.headers, "X-Content-Type-Options") = <<"nosniff">>
        /\ HeaderValues(result.headers, "X-XSS-Protection") = <<"1; mode=block">>
        /\ HeaderValues(result.headers, "Referrer-Policy") = <<"no-referrer">>

\* C2: a successfully served response has Cache-Control immutable exactly when
\* the request's path has a js, css or img segment followed by a non-empty
\* part, and must-revalidate for every other request.
C2_CacheControlFollowsPath ==
    (Done /\ PrimarySucceeded) =>
        HeaderValues(result.headers, "Cache-Control") =
            <<IF PathIsHashedAsset(ParseURL(request).pathname)
              THEN Immutable ELSE MustRevalidate>>

\* C3: with debug disabled, when the primary fetch fails and the /404.html
\* fetch succeeds, the response has status 404 whatever status the store gave
\* and the body the store served for /404.html.
C3_NotFoundPage ==
    (~DEBUG /\ PrimaryFailed /\ FallbackSucceeded) =>
        /\ IsResponse
        /\ result.status = 404
        /\ result.body = <<"contents of ", "/", "404.html">>

C3_Witness ==
    /\ ~DEBUG /\ PrimaryFailed /\ FallbackSucceeded
    /\ kv.status = 206
    /\ result.status = 404

\* C4: with debug disabled, when the primary fetch and the /404.html fetch both
\* fail, the response has status 500 and its body is the message (or, when
\* that is empty, the string form) of the primary fetch's error.
C4_BothFail ==
    (~DEBUG /\ PrimaryFailed /\ FallbackFailed) =>
        /\ IsResponse
        /\ result.status = 500
        /\ result.body = ExpectedErrorBody(PrimaryKey)

C4_Witness ==
    /\ ~DEBUG /\ PrimaryFailed /\ FallbackFailed
    /\ StoreError(kv, PrimaryKey) # StoreError(kv, ParseURL(lookups[2].url).pathname)
    /\ result.status = 500

\* C5 as stated: with debug enabled, when the store throws E on the primary
\* fetch, /404.html is never fetched and the response is a 500 whose body is
\* E's message text.
C5_DebugBodyIsMessage ==
    (DEBUG /\ PrimaryFailed) =>
        /\ Done /\ Len(lookups) = 1
        /\ IsResponse
        /\ result.status = 500
        /\ result.body = StoreError(kv, PrimaryKey).message

\* C5 amended: with debug enabled, when the store throws E on the primary
\* fetch, /404.html is never fetched and the response is a 500 whose body is
\* E's message text, or E's string form when the message is empty.
C5_DebugError ==
    (DEBUG /\ PrimaryFailed) =>
        /\ Done /\ Len(lookups) = 1
        /\ IsResponse
        /\ result.status = 500
        /\ result.body = ExpectedErrorBody(PrimaryKey)

C5_Witness ==
    /\ DEBUG /\ PrimaryFailed /\ Done
    /\ kv.blank
    /\ result.body = <<"Error">>

\* C6: once an event has been handled, respondWith has been called exactly
\* once and exactly one Response was returned, with status the store's success
\* status, 404 or 500.
C6_OneResponsePerEvent ==
    Done =>
        /\ responded = 1
        /\ IsResponse
        /\ result.status \in StoreStatuses \cup {404, 500}

\* C7: an exception raised in handleEvent outside its inner try/catch is
\* caught by the listener and becomes a 500 response, body 'Internal Error'
\* with debug disabled and the raw error message with debug enabled.
C7_EscapedExceptionBecomes500 ==
    (Done /\ ~IsURL(request)) =>
        /\ IsResponse
        /\ result.status = 500
        /\ result.body = IF DEBUG THEN <<"Invalid URL">> ELSE <<"Internal Error">>

\* C8: the primary lookup is the root /index.html whenever the default-mapped
\* path ends in /index.html, with or without a query string, and the
\* default-mapped request unchanged otherwise.
C8_IndexRewriteFollowsPath ==
    Len(lookups) >= 1 =>
        lookups[1].url =
            IF EndsWith(ParseURL(mapRequestToAsset(request)).pathname, <<"/", "index.html">>)
            THEN RootURL("index.html")
            ELSE mapRequestToAsset(request)

\* C9: the same request handled again, with the same debug flag and store
\* state, gets a response with the same status and the same headers.
C9_Idempotent ==
    \A a, b \in log :
        a.request = b.request =>
            /\ a.result.kind = b.result.kind
            /\ a.result.kind = "response" =>
                  /\ a.result.status = b.result.status
                  /\ a.result.headers = b.result.headers

C9_Witness ==
    /\ handled = 2
    /\ Cardinality(log) = 1
    /\ Done /\ PrimarySucceeded
    /\ HeaderValues(result.headers, "Cache-Control") = <<Immutable>>

\* C10: an invocation calls the store at most twice; the first call is the
\* primary fetch with the index.html mapping, and a second call is the fetch
\* of the origin's root /404.html, made only after the primary fetch failed.
C10_StoreCalls ==
    /\ Len(lookups) <= 2
    /\ Len(lookups) >= 1 =>
          /\ lookups[1].call = "primary"
          /\ lookups[1].url = indexMapRequestToAsset(request)
    /\ Len(lookups) = 2 =>
          /\ lookups[2].call = "notFound"
          /\ lookups[2].url = RootURL("404.html")
          /\ ~Served(kv, lookups[1].url)
          /\ caught = StoreError(kv, PrimaryKey)
    /\ (pc # "primary" /\ Len(lookups) >= 1 /\ Served(kv, lookups[1].url)) => Len(lookups) = 1
    /\ pc = "fallback" => Len(lookups) = 2

C10_Witness ==
    /\ Len(lookups) = 2
    /\ Done
    /\ ParseURL(request).pathname # <<"/", "404.html">>
    /\ lookups[2].url # lookups[1].url

====
